---- MODULE Spec2Model ----
(***************************************************************************)
(* A model of basicstats.c: a growable array of doubles (create / resize / *)
(* free), the loader that fills it with fscanf("%lf"), the qsort call and  *)
(* the five reducers of main, and main's exit paths.                        *)
(*                                                                         *)
(* Numbers.  A C double is modelled as a fixed-point integer counting      *)
(* millionths: ONE stands for 1.0 and e for the 0.000001 of                *)
(* babylonian_sqrt.  Division truncates to a millionth.  NaN is a value of *)
(* its own on which every comparison is false.                             *)
(*                                                                         *)
(* Memory.  The header block (the DynamicArray struct) and the data block  *)
(* each carry an allocation status and a count of the free() calls made on *)
(* them; a slot of the data block that was never written holds Uninit, and *)
(* reading it, or reading outside the block, yields an arbitrary value.    *)
(***************************************************************************)
EXTENDS Integers, Sequences, FiniteSets

(* ---------------------------------------------------------------- bounds *)
\* Longest input file, in whitespace-separated tokens.
MaxTokens == 4
\* Initial capacities 1..MaxInitCap are tried beside the 20 that main passes.
MaxInitCap == 2
\* argc ranges over 1..MaxArgc.
MaxArgc == 3
\* The client of the buffer interface appends at most MaxAppends values ...
MaxAppends == 3
\* ... and calls free_dynamic_array at most MaxFreeCalls times.
MaxFreeCalls == 3

(* ------------------------------------------------------------- constants *)
EXIT_SUCCESS == 0
EXIT_FAILURE == 1
\* create_dynamic_array(20) in main
MainInitialCapacity == 20
\* 1.0 as a fixed-point double
ONE == 1000 * 1000
\* double e = 0.000001
e == 1

NaN == 0 - 1000 * ONE
Inf == 0 - 999 * ONE
\* content of a slot of the data block that was never written
Uninit == 0 - 998 * ONE
\* values an indeterminate read may produce
Garbage == {0, 5 * ONE}
\* exit status of a process that is still running
Running == 0 - 1

NULL == "NULL"
ARRAY == "array"

InitCaps == (1..MaxInitCap) \cup {MainInitialCapacity}

(* ------------------------------------------------- fixed-point arithmetic *)
Abs(a) == IF a < 0 THEN 0 - a ELSE a

RECURSIVE Pow10(_)
Pow10(k) == IF k = 0 THEN 1 ELSE 10 * Pow10(k - 1)

\* k further decimal digits of r / b, for 0 <= r < b
RECURSIVE LongDiv(_, _, _)
LongDiv(r, b, k) ==
    IF k = 0 THEN 0
    ELSE ((r * 10) \div b) * Pow10(k - 1) + LongDiv((r * 10) % b, b, k - 1)

\* double / double, both non-negative
FDiv(a, b) ==
    IF a = NaN \/ b = NaN THEN NaN
    ELSE IF b = 0 THEN (IF a = 0 THEN NaN ELSE Inf)
    ELSE (a \div b) * ONE + LongDiv(a % b, b, 6)

\* double / int
FDivInt(a, n) ==
    IF a = NaN THEN NaN
    ELSE IF n = 0 THEN (IF a = 0 THEN NaN ELSE Inf)
    ELSE a \div n

\* double * double
FMul(a, b) ==
    LET ah == Abs(a) \div 1000
        al == Abs(a) % 1000
        bh == Abs(b) \div 1000
        bl == Abs(b) % 1000
        m  == ah * bh + (ah * bl + al * bh) \div 1000
    IN  IF (a < 0) = (b < 0) THEN m ELSE 0 - m

(* ------------------------------------------------------------ the heap *)
\* hdr, blk: "none" (never allocated), "live" or "freed"; hdrFrees, blkFrees:
\* the free() calls made on each block; touched: a freed block was read,
\* written or freed again.
NoHeap ==
    [hdr |-> "none", blk |-> "none", hdrFrees |-> 0, blkFrees |-> 0,
     touched |-> FALSE]

\* the struct before create_dynamic_array has filled it
NoArray == [data |-> <<>>, size |-> 0, capacity |-> 0]

\* free(array->data): the pointer is read from the header, then the block freed
FreeData(h) ==
    [h EXCEPT !.touched = @ \/ h.hdr # "live" \/ h.blk # "live",
              !.blk = "freed", !.blkFrees = @ + 1]

\* free(array)
FreeHeader(h) ==
    [h EXCEPT !.touched = @ \/ h.hdr # "live",
              !.hdr = "freed", !.hdrFrees = @ + 1]

\* any other access to the struct or to its data block
Touch(h) == [h EXCEPT !.touched = @ \/ h.hdr # "live" \/ h.blk # "live"]

\* free_dynamic_array without the free of the data block
free_dynamic_array_leak(array, h) ==
    IF array # NULL THEN FreeHeader(h) ELSE h

\* free_dynamic_array without the NULL test
free_dynamic_array_nocheck(array, h) == FreeHeader(FreeData(h))

free_dynamic_array(array, h) ==
    IF array # NULL THEN FreeHeader(FreeData(h)) ELSE h

\* malloc(initial_capacity * sizeof(double)): a block of indeterminate content
Fresh(n) == [i \in 1..n |-> Uninit]

\* okHdr, okData: whether the two malloc calls succeed
create_dynamic_array(initial_capacity, okHdr, okData) ==
    IF ~okHdr THEN [ret |-> NULL, arr |-> NoArray, heap |-> NoHeap]
    ELSE IF ~okData
    THEN [ret |-> NULL, arr |-> NoArray,
          heap |-> FreeHeader([NoHeap EXCEPT !.hdr = "live"])]
    ELSE [ret |-> ARRAY,
          arr |-> [data |-> Fresh(initial_capacity), size |-> 0,
                   capacity |-> initial_capacity],
          heap |-> [NoHeap EXCEPT !.hdr = "live", !.blk = "live"]]

\* realloc(data, n * sizeof(double)) when it succeeds: the old content is kept
Realloc(data, n) ==
    [i \in 1..n |-> IF i <= Len(data) THEN data[i] ELSE Uninit]

\* resize_array_if_needed that never grows
resize_array_if_needed_never(a, h, ok) ==
    [arr |-> a, heap |-> h, exit |-> FALSE, failed |-> FALSE]

\* resize_array_if_needed that grows by one slot
resize_array_if_needed_plus1(a, h, ok) ==
    IF a.size = a.capacity /\ ok
    THEN [arr |-> [a EXCEPT !.data = Realloc(a.data, a.capacity + 1),
                            !.capacity = a.capacity + 1],
          heap |-> h, exit |-> FALSE, failed |-> FALSE]
    ELSE [arr |-> a, heap |-> h, exit |-> FALSE, failed |-> FALSE]

\* ok: whether realloc succeeds.  exit: the function called exit(EXIT_FAILURE).
resize_array_if_needed(a, h, ok) ==
    IF a.size = a.capacity
    THEN LET new_capacity == 2 * a.capacity
         IN  IF ~ok
             THEN [arr |-> a, heap |-> free_dynamic_array(ARRAY, h),
                   exit |-> TRUE, failed |-> TRUE]
             ELSE [arr |-> [a EXCEPT !.data = Realloc(a.data, new_capacity),
                                     !.capacity = new_capacity],
                   heap |-> h, exit |-> FALSE, failed |-> FALSE]
    ELSE [arr |-> a, heap |-> h, exit |-> FALSE, failed |-> FALSE]

\* array->data[array->size++] = value; oob: the store fell outside the block
Store(a, value) ==
    [arr |-> [a EXCEPT !.data = IF a.size < Len(a.data)
                                THEN [a.data EXCEPT ![a.size + 1] = value]
                                ELSE a.data,
                       !.size = a.size + 1],
     oob |-> ~(a.size < a.capacity)]

(* ------------------------------------------------------------ the file *)
Digits == {"0", "1", "2", "3", "4", "5", "6", "7", "8", "9"}
Space == " "

DigitVal(c) ==
    CASE c = "0" -> 0 [] c = "1" -> 1 [] c = "2" -> 2 [] c = "3" -> 3
      [] c = "4" -> 4 [] c = "5" -> 5 [] c = "6" -> 6 [] c = "7" -> 7
      [] c = "8" -> 8 [] c = "9" -> 9

\* the position of the first character at or after p that is not white space
RECURSIVE SkipSpace(_, _)
SkipSpace(f, p) ==
    IF p <= Len(f) /\ f[p] = Space THEN SkipSpace(f, p + 1) ELSE p

\* the longest run of digits from p: its value, its length, the position after it
RECURSIVE ReadDigits(_, _, _, _)
ReadDigits(f, p, acc, n) ==
    IF p <= Len(f) /\ f[p] \in Digits
    THEN ReadDigits(f, p + 1, acc * 10 + DigitVal(f[p]), n + 1)
    ELSE [acc |-> acc, n |-> n, pos |-> p]

\* fscanf("%lf") that steps over a character it cannot convert and tries again
fscanf_lf_skip(f, p) ==
    LET q == SkipSpace(f, p)
        d == ReadDigits(f, q, 0, 0)
        q2 == SkipSpace(f, q + 1)
        d2 == ReadDigits(f, q2, 0, 0)
    IN  IF q > Len(f) THEN [ret |-> 0 - 1, value |-> 0, pos |-> q]
        ELSE IF d.n > 0 THEN [ret |-> 1, value |-> d.acc * ONE, pos |-> d.pos]
        ELSE IF d2.n > 0 THEN [ret |-> 1, value |-> d2.acc * ONE, pos |-> d2.pos]
        ELSE [ret |-> 0, value |-> 0, pos |-> q]

\* fscanf(file, "%lf", &value) on a file of digits, letters and blanks, read
\* from position p: ret is 1 (converted), 0 (no number here) or -1 (EOF)
fscanf_lf(f, p) ==
    LET q == SkipSpace(f, p)
        d == ReadDigits(f, q, 0, 0)
    IN  IF q > Len(f) THEN [ret |-> 0 - 1, value |-> 0, pos |-> q]
        ELSE IF d.n = 0 THEN [ret |-> 0, value |-> 0, pos |-> q]
        ELSE [ret |-> 1, value |-> d.acc * ONE, pos |-> d.pos]

\* the tokens a file may hold, and the files: tokens joined by one blank
TokenSet == {<<"1">>, <<"2">>, <<"1", "2">>, <<"2", "a">>, <<"a">>}

RECURSIVE Join(_)
Join(toks) ==
    IF toks = <<>> THEN <<>>
    ELSE IF Len(toks) = 1 THEN toks[1]
    ELSE toks[1] \o <<Space>> \o Join(Tail(toks))

TokenSeqs == UNION {[1..n -> TokenSet] : n \in 0..MaxTokens}
Files == {Join(t) : t \in TokenSeqs}

(* -------------------------------------------------------- the reducers *)
\* array->data[i].  A slot inside [0, size) holds what was stored there; any
\* other read is of indeterminate memory and yields junk[i].
At(a, i, junk) ==
    IF i >= 0 /\ i < Len(a.data) /\ i < a.size /\ a.data[i + 1] # Uninit
    THEN a.data[i + 1]
    ELSE IF i \in DOMAIN junk THEN junk[i] ELSE 0

NoJunk == [i \in {} |-> 0]

\* the junk an out-of-range read of array a may produce: only the empty array
\* is read outside [0, size), at the indices -1 and 0
Junks(a) == IF a.size = 0 THEN [{0 - 1, 0} -> Garbage] ELSE {NoJunk}

\* for (i = from; i < size; i++) sum += data[i];
RECURSIVE SumFrom(_, _, _)
SumFrom(a, i, sum) ==
    IF i < a.size THEN SumFrom(a, i + 1, sum + At(a, i, NoJunk)) ELSE sum

compute_mean(a) ==
    [val |-> FDivInt(SumFrom(a, 0, 0), a.size), idx |-> 0..(a.size - 1)]

\* for (...) { diff = data[i] - mean; sum_sq += diff * diff; }
RECURSIVE SumSqFrom(_, _, _, _)
SumSqFrom(a, m, i, sum_sq) ==
    IF i < a.size
    THEN LET diff == At(a, i, NoJunk) - m
         IN  SumSqFrom(a, m, i + 1, sum_sq + FMul(diff, diff))
    ELSE sum_sq

\* compute_stddev up to its call of babylonian_sqrt: val is the argument
compute_stddev(a, m) ==
    [val |-> FDivInt(SumSqFrom(a, m, 0, 0), a.size), idx |-> 0..(a.size - 1)]

\* compute_median with the two central elements taken one place too high
compute_median_high(a, junk) ==
    LET middle_index == a.size \div 2
    IN  IF a.size % 2 = 0
        THEN [val |-> FDivInt(At(a, middle_index, junk)
                              + At(a, middle_index + 1, junk), 2),
              idx |-> {middle_index, middle_index + 1}]
        ELSE [val |-> At(a, middle_index, junk), idx |-> {middle_index}]

compute_median(a, junk) ==
    LET middle_index == a.size \div 2
    IN  IF a.size % 2 = 0
        THEN [val |-> FDivInt(At(a, middle_index - 1, junk)
                              + At(a, middle_index, junk), 2),
              idx |-> {middle_index - 1, middle_index}]
        ELSE [val |-> At(a, middle_index, junk), idx |-> {middle_index}]

\* the loop of compute_mode from index i on
RECURSIVE ModeLoop(_, _, _, _, _)
ModeLoop(a, i, mode, max_count, current_count) ==
    IF i < a.size
    THEN IF At(a, i, NoJunk) = At(a, i - 1, NoJunk)
         THEN ModeLoop(a, i + 1, mode, max_count, current_count + 1)
         ELSE IF current_count > max_count
              THEN ModeLoop(a, i + 1, At(a, i - 1, NoJunk), current_count, 1)
              ELSE ModeLoop(a, i + 1, mode, max_count, 1)
    ELSE mode

compute_mode(a, junk) ==
    [val |-> ModeLoop(a, 1, At(a, 0, junk), 1, 1),
     idx |-> {0} \cup 0..(a.size - 1)]

\* for (...) denominator_sum += 1 / data[i];
RECURSIVE RecipSumFrom(_, _, _)
RecipSumFrom(a, i, denominator_sum) ==
    IF i < a.size
    THEN RecipSumFrom(a, i + 1, denominator_sum + FDiv(ONE, At(a, i, NoJunk)))
    ELSE denominator_sum

compute_harmonic_mean(a) ==
    [val |-> FDiv(a.size * ONE, RecipSumFrom(a, 0, 0)),
     idx |-> 0..(a.size - 1)]

compare_double(a, b) ==
    LET diff == a - b
    IN  (IF diff > 0 THEN 1 ELSE 0) - (IF diff < 0 THEN 1 ELSE 0)

RECURSIVE Insert(_, _)
Insert(v, s) ==
    IF s = <<>> THEN <<v>>
    ELSE IF compare_double(v, s[1]) <= 0 THEN <<v>> \o s
    ELSE <<s[1]>> \o Insert(v, Tail(s))

RECURSIVE SortSeq(_)
SortSeq(s) == IF s = <<>> THEN <<>> ELSE Insert(s[1], SortSeq(Tail(s)))

\* qsort(data, n, sizeof(double), compare_double): the first n slots, ascending
qsort(data, n) ==
    LET k == IF n < Len(data) THEN n ELSE Len(data)
    IN  SortSeq(SubSeq(data, 1, k)) \o SubSeq(data, k + 1, Len(data))

(* ----------------------------------------------------------- the state *)
VARIABLES
    pc,            \* where main stands; "exited" once the process has ended
    argc,
    opened,        \* fopen: "no" (not called yet), "ok" or "fail"
    file,          \* the characters of the input file
    pos,           \* the stream position, from 1
    initCap,       \* the capacity create_dynamic_array was called with
    arr,           \* the DynamicArray struct: data, size, capacity
    heap,          \* the allocation status of the struct and of its data block
    allocFailed,   \* a malloc or realloc call has returned NULL
    storeOOB,      \* a store data[size++] fell outside the data block
    appended,      \* the values stored so far, in order
    reads,         \* the indices of data the reducers have read
    mean, median, mode, stddev, harmonic_mean,
    value, x, y,   \* the locals of babylonian_sqrt
    report,        \* what print_statistics wrote; <<>> before
    exitCode,
    lastFree,      \* the argument of the client's last free_dynamic_array call
    freeCalls      \* how many such calls the client has made

vars ==
    <<pc, argc, opened, file, pos, initCap, arr, heap, allocFailed, storeOOB,
      appended, reads, mean, median, mode, stddev, harmonic_mean, value, x, y,
      report, exitCode, lastFree, freeCalls>>

stats == <<mean, median, mode, stddev, harmonic_mean>>
sqrtv == <<value, x, y>>
client == <<lastFree, freeCalls>>
input == <<argc, opened, file, pos>>

Start(p) ==
    /\ pc = p
    /\ opened = "no"
    /\ file = <<>>
    /\ pos = 1
    /\ initCap = 0
    /\ arr = NoArray
    /\ heap = NoHeap
    /\ allocFailed = FALSE
    /\ storeOOB = FALSE
    /\ appended = <<>>
    /\ reads = {}
    /\ mean = 0 /\ median = 0 /\ mode = 0 /\ stddev = 0 /\ harmonic_mean = 0
    /\ value = 0 /\ x = 0 /\ y = 0
    /\ report = <<>>
    /\ exitCode = Running
    /\ lastFree = "none"
    /\ freeCalls = 0

Init == argc \in 1..MaxArgc /\ Start("main")

\* return code / exit(code)
Exit(code) == pc' = "exited" /\ exitCode' = code

(* ---------------------------------------------------------------- main *)
\* main with the test argc < 2 in place of argc != 2
Main_Args_atleast ==
    /\ pc = "main"
    /\ IF argc < 2 THEN Exit(EXIT_FAILURE)
       ELSE pc' = "create" /\ UNCHANGED exitCode
    /\ UNCHANGED <<input, initCap, arr, heap, allocFailed, storeOOB, appended,
                   reads, stats, sqrtv, report, client>>

\* if (argc != 2) { usage; return EXIT_FAILURE; }
Main_Args ==
    /\ pc = "main"
    /\ IF argc # 2 THEN Exit(EXIT_FAILURE)
       ELSE pc' = "create" /\ UNCHANGED exitCode
    /\ UNCHANGED <<input, initCap, arr, heap, allocFailed, storeOOB, appended,
                   reads, stats, sqrtv, report, client>>

\* data_array = create_dynamic_array(c); if (!data_array) return EXIT_FAILURE;
\* main passes 20; the model also tries the capacities 1..MaxInitCap, so that
\* short files make the array grow.
Main_Create ==
    /\ pc = "create"
    /\ \E c \in InitCaps, okHdr \in BOOLEAN, okData \in BOOLEAN :
          LET r == create_dynamic_array(c, okHdr, okData)
          IN  /\ initCap' = c
              /\ arr' = r.arr
              /\ heap' = r.heap
              /\ allocFailed' = (r.ret = NULL)
              /\ IF r.ret = NULL THEN Exit(EXIT_FAILURE)
                 ELSE pc' = "open" /\ UNCHANGED exitCode
    /\ UNCHANGED <<input, storeOOB, appended, reads, stats, sqrtv, report,
                   client>>

\* read_data_from_file: fopen.  On failure it returns 0 and main frees the
\* array and returns EXIT_FAILURE.
Read_Open ==
    /\ pc = "open"
    /\ \/ /\ opened' = "fail"
          /\ heap' = free_dynamic_array(ARRAY, heap)
          /\ Exit(EXIT_FAILURE)
          /\ UNCHANGED <<file, pos>>
       \/ /\ opened' = "ok"
          /\ file' \in Files
          /\ pos' = 1
          /\ pc' = "read"
          /\ UNCHANGED <<heap, exitCode>>
    /\ UNCHANGED <<argc, initCap, arr, allocFailed, storeOOB, appended, reads,
                   stats, sqrtv, report, client>>

\* resize_array_if_needed(array); array->data[array->size++] = value;
\* realloc is called, and so may fail, only when size == capacity; on failure
\* resize_array_if_needed frees the array and calls exit(EXIT_FAILURE).
AppendValue(v) ==
    \E ok \in (IF arr.size = arr.capacity THEN BOOLEAN ELSE {TRUE}) :
       LET r  == resize_array_if_needed(arr, heap, ok)
           st == Store(r.arr, v)
       IN  /\ allocFailed' = (allocFailed \/ r.failed)
           /\ IF r.exit
              THEN /\ heap' = r.heap
                   /\ Exit(EXIT_FAILURE)
                   /\ UNCHANGED <<arr, storeOOB, appended>>
              ELSE /\ heap' = Touch(r.heap)
                   /\ arr' = st.arr
                   /\ storeOOB' = (storeOOB \/ st.oob)
                   /\ appended' = Append(appended, v)
                   /\ UNCHANGED <<pc, exitCode>>

\* one turn of while (fscanf(file, "%lf", &value) == 1) { resize; store; },
\* or, when fscanf does not return 1, fclose and return 1
Read_Loop ==
    /\ pc = "read"
    /\ LET s == fscanf_lf(file, pos)
       IN  /\ pos' = s.pos
           /\ IF s.ret = 1
              THEN AppendValue(s.value)
              ELSE /\ pc' = "qsort"
                   /\ UNCHANGED <<arr, heap, allocFailed, storeOOB, appended,
                                  exitCode>>
    /\ UNCHANGED <<argc, opened, file, initCap, reads, stats, sqrtv, report,
                   client>>

\* qsort(data_array->data, data_array->size, sizeof(double), compare_double)
Main_Sort ==
    /\ pc = "qsort"
    /\ arr' = [arr EXCEPT !.data = qsort(arr.data, arr.size)]
    /\ heap' = Touch(heap)
    /\ pc' = "mean"
    /\ UNCHANGED <<input, initCap, allocFailed, storeOOB, appended, reads,
                   stats, sqrtv, report, exitCode, client>>

\* double mean = compute_mean(data_array)
Main_Mean ==
    /\ pc = "mean"
    /\ LET r == compute_mean(arr)
       IN  mean' = r.val /\ reads' = reads \cup r.idx
    /\ heap' = Touch(heap)
    /\ pc' = "median"
    /\ UNCHANGED <<input, initCap, arr, allocFailed, storeOOB, appended,
                   median, mode, stddev, harmonic_mean, sqrtv, report,
                   exitCode, client>>

\* double median = compute_median(data_array)
Main_Median ==
    /\ pc = "median"
    /\ \E junk \in Junks(arr) :
          LET r == compute_median(arr, junk)
          IN  median' = r.val /\ reads' = reads \cup r.idx
    /\ heap' = Touch(heap)
    /\ pc' = "mode"
    /\ UNCHANGED <<input, initCap, arr, allocFailed, storeOOB, appended,
                   mean, mode, stddev, harmonic_mean, sqrtv, report,
                   exitCode, client>>

\* double mode = compute_mode(data_array)
Main_Mode ==
    /\ pc = "mode"
    /\ \E junk \in Junks(arr) :
          LET r == compute_mode(arr, junk)
          IN  mode' = r.val /\ reads' = reads \cup r.idx
    /\ heap' = Touch(heap)
    /\ pc' = "stddev"
    /\ UNCHANGED <<input, initCap, arr, allocFailed, storeOOB, appended,
                   mean, median, stddev, harmonic_mean, sqrtv, report,
                   exitCode, client>>

\* compute_stddev(data_array, mean) up to the entry of babylonian_sqrt:
\* double x = value, y = 1.0
Main_Stddev ==
    /\ pc = "stddev"
    /\ LET r == compute_stddev(arr, mean)
       IN  /\ value' = r.val
           /\ x' = r.val
           /\ y' = ONE
           /\ reads' = reads \cup r.idx
    /\ heap' = Touch(heap)
    /\ pc' = "sqrt"
    /\ UNCHANGED <<input, initCap, arr, allocFailed, storeOOB, appended,
                   stats, report, exitCode, client>>

\* while (x - y > e): a comparison with NaN is false
SqrtGoesOn == x # NaN /\ y # NaN /\ x - y > e

\* x = (x + y) / 2; y = value / x;
Sqrt_Iter ==
    /\ pc = "sqrt"
    /\ SqrtGoesOn
    /\ x' = FDivInt(x + y, 2)
    /\ y' = FDiv(value, x')
    /\ UNCHANGED <<pc, input, initCap, arr, heap, allocFailed, storeOOB,
                   appended, reads, stats, value, report, exitCode, client>>

\* return x; which compute_stddev returns to main as stddev
Sqrt_Return ==
    /\ pc = "sqrt"
    /\ ~SqrtGoesOn
    /\ stddev' = x
    /\ pc' = "hmean"
    /\ UNCHANGED <<input, initCap, arr, heap, allocFailed, storeOOB, appended,
                   reads, mean, median, mode, harmonic_mean, sqrtv, report,
                   exitCode, client>>

\* double harmonic_mean = compute_harmonic_mean(data_array)
Main_HarmonicMean ==
    /\ pc = "hmean"
    /\ LET r == compute_harmonic_mean(arr)
       IN  harmonic_mean' = r.val /\ reads' = reads \cup r.idx
    /\ heap' = Touch(heap)
    /\ pc' = "print"
    /\ UNCHANGED <<input, initCap, arr, allocFailed, storeOOB, appended,
                   mean, median, mode, stddev, sqrtv, report, exitCode,
                   client>>

\* print_statistics(size, capacity, mean, median, mode, stddev, harmonic_mean):
\* the last line is capacity - size
Main_Print ==
    /\ pc = "print"
    /\ report' = <<arr.size, mean, median, mode, stddev, harmonic_mean,
                   arr.capacity - arr.size>>
    /\ heap' = Touch(heap)
    /\ pc' = "free"
    /\ UNCHANGED <<input, initCap, arr, allocFailed, storeOOB, appended,
                   reads, stats, sqrtv, exitCode, client>>

\* free_dynamic_array(data_array); return EXIT_SUCCESS;
Main_Free ==
    /\ pc = "free"
    /\ heap' = free_dynamic_array(ARRAY, heap)
    /\ Exit(EXIT_SUCCESS)
    /\ UNCHANGED <<input, initCap, arr, allocFailed, storeOOB, appended,
                   reads, stats, sqrtv, report, client>>

Next ==
    \/ Main_Args
    \/ Main_Create
    \/ Read_Open
    \/ Read_Loop
    \/ Main_Sort
    \/ Main_Mean
    \/ Main_Median
    \/ Main_Mode
    \/ Main_Stddev
    \/ Sqrt_Iter
    \/ Sqrt_Return
    \/ Main_HarmonicMean
    \/ Main_Print
    \/ Main_Free

Spec == Init /\ [][Next]_vars

(* ------------------------------------------- a client of the interface *)
\* The three functions of the array called by a client other than main, which
\* may hand free_dynamic_array a null pointer or a pointer it has already
\* handed it.
InitBuffer == argc = 2 /\ Start("api")

Api_Create ==
    /\ pc = "api"
    /\ heap.blk = "none"
    /\ \E c \in InitCaps, okHdr \in BOOLEAN, okData \in BOOLEAN :
          LET r == create_dynamic_array(c, okHdr, okData)
          IN  /\ initCap' = c
              /\ arr' = r.arr
              /\ heap' = r.heap
              /\ allocFailed' = (r.ret = NULL)
    /\ UNCHANGED <<pc, input, storeOOB, appended, reads, stats, sqrtv, report,
                   exitCode, client>>

Api_Append ==
    /\ pc = "api"
    /\ heap.hdr = "live"
    /\ arr.size < MaxAppends
    /\ \E v \in {ONE, 2 * ONE} : AppendValue(v)
    /\ UNCHANGED <<input, initCap, reads, stats, sqrtv, report, client>>

Api_Free ==
    /\ pc = "api"
    /\ freeCalls < MaxFreeCalls
    /\ \E a \in {NULL} \cup (IF heap.blk # "none" THEN {ARRAY} ELSE {}) :
          /\ heap' = free_dynamic_array(a, heap)
          /\ lastFree' = a
    /\ freeCalls' = freeCalls + 1
    /\ UNCHANGED <<pc, input, initCap, arr, allocFailed, storeOOB, appended,
                   reads, stats, sqrtv, report, exitCode>>

NextBuffer == Api_Create \/ Api_Append \/ Api_Free

SpecBuffer == InitBuffer /\ [][NextBuffer]_vars

(* ---------------------------------------------------------- the claims *)
\* the valid elements data[0 .. size-1]
Live == SubSeq(arr.data, 1, IF arr.size < Len(arr.data) THEN arr.size
                            ELSE Len(arr.data))

Loading == pc \in {"read", "qsort"}
AfterMedian == pc \in {"mode", "stddev", "sqrt", "hmean", "print", "free"}
AfterMode == pc \in {"stddev", "sqrt", "hmean", "print", "free"}
AfterSqrt == pc \in {"hmean", "print", "free"}

\* how often v occurs among the valid elements
Count(v) == Cardinality({i \in 1..Len(Live) : Live[i] = v})

\* v heads the first of the longest runs of a sorted array: no value occurs
\* more often, and no smaller value occurs as often
FirstLongestRun(v) ==
    /\ Count(v) > 0
    /\ \A i \in 1..Len(Live) :
          \/ Count(Live[i]) < Count(v)
          \/ Count(Live[i]) = Count(v) /\ v <= Live[i]

\* C1: on a non-empty sorted array compute_mode returns the value of the
\* longest run of equal elements, the first such run when several are longest.
C1_ModeIsFirstLongestRun ==
    (AfterMode /\ arr.size > 0) => FirstLongestRun(mode)

\* C2: once the array is created, 0 <= size <= capacity, no store has fallen
\* at or beyond the capacity, and while the file is loaded data[0 .. size-1]
\* are exactly the values appended, in order.
C2_BufferInvariant ==
    heap.hdr = "live" =>
        /\ 0 <= arr.size /\ arr.size <= arr.capacity
        /\ arr.capacity = Len(arr.data)
        /\ ~storeOOB
        /\ Loading => Live = appended

C2_Witness ==
    /\ pc = "read" /\ initCap = 1
    /\ arr.size = 2 /\ arr.capacity = 2 /\ Len(appended) = 2

\* the least power of two that is >= n, from p upwards
RECURSIVE Pow2From(_, _)
Pow2From(n, p) == IF p >= n THEN p ELSE Pow2From(n, 2 * p)

\* C3: from capacity 1, after N appends size is N and the capacity is the
\* least power of two >= N, and the N slots read back the appended values in
\* order; the capacity changes only by doubling, and only in an append that
\* starts with size = capacity.
C3_DoublingGrowth ==
    /\ [](heap.hdr = "live" /\ initCap = 1 /\ Loading =>
            /\ arr.size = Len(appended)
            /\ arr.capacity = Pow2From(arr.size, 1)
            /\ \A i \in 1..Len(appended) : arr.data[i] = appended[i])
    /\ [][heap.hdr = "live" /\ arr'.capacity # arr.capacity =>
            /\ arr'.capacity = 2 * arr.capacity
            /\ arr.size = arr.capacity
            /\ arr'.size = arr.size + 1]_vars

C3_Witness ==
    /\ pc = "qsort" /\ initCap = 1 /\ heap.hdr = "live"
    /\ arr.size = 3 /\ arr.capacity = 4

\* the whitespace-separated tokens of f from position p on
RECURSIVE TokenEnd(_, _)
TokenEnd(f, p) ==
    IF p <= Len(f) /\ f[p] # Space THEN TokenEnd(f, p + 1) ELSE p

RECURSIVE Tokens(_, _)
Tokens(f, p) ==
    LET q == SkipSpace(f, p)
        r == TokenEnd(f, q)
    IN  IF q > Len(f) THEN <<>>
        ELSE <<SubSeq(f, q, r - 1)>> \o Tokens(f, r)

IsNumber(tok) == tok # <<>> /\ \A i \in 1..Len(tok) : tok[i] \in Digits
StartsWithNumber(tok) == tok # <<>> /\ tok[1] \in Digits

\* the number a string of digits, or the digits a token starts with, denotes
RECURSIVE Numeral(_, _)
Numeral(tok, acc) ==
    IF tok # <<>> /\ tok[1] \in Digits
    THEN Numeral(Tail(tok), 10 * acc + DigitVal(tok[1]))
    ELSE acc * ONE

\* the values of the longest prefix of tokens that are all numbers
RECURSIVE NumericPrefix(_)
NumericPrefix(toks) ==
    IF toks # <<>> /\ IsNumber(toks[1])
    THEN <<Numeral(toks[1], 0)>> \o NumericPrefix(Tail(toks))
    ELSE <<>>

\* the same, followed by the number that the first token which is not a number
\* starts with, when it starts with one
RECURSIVE ConvertedPrefix(_)
ConvertedPrefix(toks) ==
    IF toks = <<>> THEN <<>>
    ELSE IF IsNumber(toks[1])
    THEN <<Numeral(toks[1], 0)>> \o ConvertedPrefix(Tail(toks))
    ELSE IF StartsWithNumber(toks[1]) THEN <<Numeral(toks[1], 0)>>
    ELSE <<>>

C5_ReleasedExactlyOnce ==
    /\ heap.hdrFrees <= 1 /\ heap.blkFrees <= 1 /\ ~heap.touched
    /\ (pc = "exited" /\ heap.blk # "none") =>
          /\ heap.hdr = "freed" /\ heap.blk = "freed"
          /\ heap.hdrFrees = 1 /\ heap.blkFrees = 1

C5_Witness ==
    /\ pc = "exited" /\ opened = "ok" /\ allocFailed
    /\ arr.size > 0 /\ heap.blkFrees = 1 /\ heap.hdrFrees = 1

\* C6: the process exits with 0 exactly when argc is 2, the file opens and no
\* allocation fails; when it exits with another code, nothing was printed.
C6_ExitCode ==
    pc = "exited" =>
        /\ (exitCode = EXIT_SUCCESS) <=>
              (argc = 2 /\ opened = "ok" /\ ~allocFailed)
        /\ exitCode # EXIT_SUCCESS => report = <<>>

C6_Witness ==
    pc = "exited" /\ exitCode = EXIT_FAILURE /\ opened = "fail"

\* C7 as stated: a call of free_dynamic_array on an array already freed frees
\* nothing again and touches no freed storage.
C7_SecondFreeIsNoOp ==
    heap.hdrFrees <= 1 /\ heap.blkFrees <= 1 /\ ~heap.touched

\* C7 as amended: free_dynamic_array(NULL) changes nothing, and called on a
\* live array it frees the data block and the struct once each.
C7_NullFreeIsNoOp ==
    [][freeCalls' # freeCalls =>
          /\ lastFree' = NULL => (heap' = heap /\ arr' = arr)
          /\ (lastFree' = ARRAY /\ heap.hdr = "live" /\ heap.blk = "live") =>
                heap' = [heap EXCEPT !.hdr = "freed", !.blk = "freed",
                                     !.hdrFrees = @ + 1, !.blkFrees = @ + 1]
      ]_vars

C7_Witness ==
    lastFree = NULL /\ freeCalls > 0 /\ heap.hdr = "live" /\ arr.size > 0

\* C8: on a non-empty sorted array compute_median returns data[size / 2] when
\* size is odd and the mean of data[size / 2 - 1] and data[size / 2] when it
\* is even.
C8_Median ==
    (AfterMedian /\ arr.size > 0) =>
        IF arr.size % 2 = 1
        THEN median = arr.data[arr.size \div 2 + 1]
        ELSE 2 * median = arr.data[arr.size \div 2] + arr.data[arr.size \div 2 + 1]

C8_Witness ==
    /\ pc = "mode" /\ Live = <<ONE, 2 * ONE, 12 * ONE, 12 * ONE>>
    /\ median = 7 * ONE

\* r is within e of the square root of v: (r - e)^2 <= v <= (r + e)^2.  The
\* squares are compared through quotients: s * s <= v iff s <= v / s, and
\* v <= s * s only if v / s <= s (the quotient truncated to a millionth).
WithinEps(r, v) ==
    /\ r >= 0
    /\ r - e <= 0 \/ r - e <= FDiv(v, r - e)
    /\ FDiv(v, r + e) <= r + e

\* C9: for every positive value babylonian_sqrt returns a result within 1e-6
\* of its square root.
C9_SqrtWithinEps ==
    (AfterSqrt /\ value > 0) => WithinEps(stddev, value)

\* C10: every index a reducer reads lies in [0, size), the empty array
\* included.
C10_ReadsInRange ==
    \A i \in reads : 0 <= i /\ i < arr.size

====
